---- MODULE Spec2Model ----
(***************************************************************************)
(* Model of LongTermMemory (src/src/memory/long_term_memory.py): the       *)
(* hybrid retrieval memory of the decree assistant.                        *)
(*                                                                         *)
(* Python strings whose characters matter (chunk ids, entity values) are   *)
(* sequences of one-character strings; other strings are TLA+ strings.     *)
(* Python lists are sequences; list indices keep Python's 0-based          *)
(* arithmetic and are shifted by one only where a sequence is indexed.     *)
(***************************************************************************)
EXTENDS Integers, Sequences, FiniteSets, TLC

\* ------------------------------------------------------------------ bounds
\* Longest hit list handed to _retrieve_parent_documents.
MaxHits == 3
\* Largest n_docs a caller passes to get_context.
MaxNDocs == 3
\* Most hits in one answer of the store to a hybrid search.
MaxAnswer == 2
\* Most chunks in one _generate_chunk_records call checked on its own.
MaxChunks == 2
\* Most entities the tagger returns for one chunk.
MaxTags == 2
\* Most documents handed to one ingestion.
MaxDocs == 4
\* Largest batch_size of an ingestion.
MaxBatch == 3
\* Most files a load holds beyond a whole number of default batches.
MaxExtra == 1
\* Most chunk records the chunks collection holds when an add_documents starts.
MaxStored == 3
\* Most files of one add_documents between queries, and most documents the
\* store holds when query serving starts.
MaxServeFiles == 2
\* Most chunk records the chunks collection holds when an add_documents starts
\* between queries.
MaxServed == 3
\* Most hits the store ranks for one query against its own records.
MaxRanked == 1

VARIABLES
    docs,   \* the records of the "docs" collection of the store
    gc,     \* the latest get_context call: its inputs, locals and outcome
    frc,    \* the latest _find_relevant_chunks call: inputs, searches, outcome
    gcr,    \* the latest _generate_chunk_records call: inputs, calls, outcome
    chunksColl,  \* the records of the "chunks" collection of the store, as inserted
    ing,    \* the _process_and_insert_chunks call in progress, and its resumes
    colls,  \* the names of the collections the store holds
    lt      \* the LongTermMemory object: run mode, latest call, store operations

vars == <<docs, gc, frc, gcr, chunksColl, ing, colls, lt>>

\* ------------------------------------------------------- general helpers
Range(s) == {s[i] : i \in 1..Len(s)}

SeqsUpTo(S, n) == UNION {[1..k -> S] : k \in 0..n}

Min(a, b) == IF a <= b THEN a ELSE b

Max(a, b) == IF a >= b THEN a ELSE b

\* Python's s[a:b] for 0 <= a, 0 <= b (out-of-range indices are clamped).
PySlice(s, a, b) ==
    LET lo == Min(a, Len(s))
        hi == Min(b, Len(s))
    IN  IF lo >= hi THEN <<>> ELSE SubSeq(s, lo + 1, hi)

\* ----------------------------------------------------- the docs collection
\* Ids of the parent documents the hits of a search may name.
ParentIds == {"d1", "d2", "d3"}

\* The "number" field of the decree with the given id, as the f-string prints it.
NumberOf(id) == CASE id = "d1" -> "1" [] id = "d2" -> "2" [] OTHER -> "3"

\* A record of the docs collection, as _generate_doc_records builds it.
DocRecord(id) ==
    [id |-> id, page |-> "0", date |-> "", type |-> "decrees",
     number |-> NumberOf(id), text |-> id, docs_vector |-> "zero"]

\* The record of a docs collection whose schema has no field `key`: a collection
\* that exists at startup is loaded and served as it is.
DocRecordWithout(id, key) ==
    [field \in DOMAIN DocRecord(id) \ {key} |-> DocRecord(id)[field]]

\* The records a docs collection may hold under a primary key.
StoredDocRecords(id) ==
    {DocRecord(id), DocRecordWithout(id, "number"), DocRecordWithout(id, "page")}

\* The contents a docs collection may have: at most one record per primary key.
DocsContents ==
    {S \in SUBSET (UNION {StoredDocRecords(id) : id \in ParentIds}) :
        \A r1 \in S, r2 \in S : r1.id = r2.id => r1 = r2}

\* Python's None, and a Document object, as values of one comparable shape.
None == [kind |-> "None"]

Document(id, text, metadata) ==
    [kind |-> "Document", id |-> id, text |-> text, metadata |-> metadata]

\* A search hit: hit.entity.get("parent_id") is h.parent_id.
Hit(pid) == [parent_id |-> pid]

\* ------------------------------------------------- _retrieve_parent_documents
\* The loop of lines 589-594 from hit k on, acc being unique_parent_ids so far.
RECURSIVE CollectParentIds(_, _, _, _)
CollectParentIds(response, n_docs, k, acc) ==
    IF k > Len(response) THEN acc
    ELSE LET parent_id == response[k].parent_id IN
         IF parent_id \notin Range(acc)
         THEN LET appended == Append(acc, parent_id) IN
              IF Len(appended) = n_docs
              THEN appended
              ELSE CollectParentIds(response, n_docs, k + 1, appended)
         ELSE CollectParentIds(response, n_docs, k + 1, acc)

\* The loop without the membership test of line 591: every hit's parent is kept.
UniqueParentIdsNoDedup(response, n_docs) ==
    LET all == [i \in 1..Len(response) |-> response[i].parent_id]
    IN  IF n_docs \in 1..Len(all) THEN SubSeq(all, 1, n_docs) ELSE all

\* unique_parent_ids of _retrieve_parent_documents(response, n_docs).
UniqueParentIds(response, n_docs) == CollectParentIds(response, n_docs, 1, <<>>)

\* _get_document_by_id against the docs collection `store`; `errs` are the ids
\* for which the store's get raises (the except branch returns None).
GetDocumentById(data_id, store, errs) ==
    IF data_id \in errs THEN None
    ELSE LET res == {r \in store : r.id = data_id} IN
         IF res = {} THEN None
         ELSE LET fields == CHOOSE r \in res : TRUE
                  metadata == [key \in DOMAIN fields \ {"id", "text", "docs_vector"}
                                  |-> fields[key]]
              IN  Document(fields.id, fields.text, metadata)

\* documents of _retrieve_parent_documents: one lookup per collected id.
RetrieveParentDocuments(response, n_docs, store, errs) ==
    LET unique_parent_ids == UniqueParentIds(response, n_docs)
    IN  [i \in 1..Len(unique_parent_ids) |->
            GetDocumentById(unique_parent_ids[i], store, errs)]

\* ------------------------------------------------------------ _create_context
\* doc.metadata['number'] and doc.metadata['page'] evaluate without raising.
Formattable(doc) ==
    /\ doc.kind = "Document"
    /\ {"number", "page"} \subseteq DOMAIN doc.metadata

\* The block line 610 appends to context for one document.
ContextBlock(doc) ==
    <<"###DECRETO ", doc.metadata["number"], "###\n", doc.text, "\n\n">>

\* The entry line 612 appends to sources_list for one document.
SourceBullet(doc) ==
    <<"- Decreto ", doc.metadata["number"], " (pagina ", doc.metadata["page"], ")">>

\* The loop of lines 606-610 prepending each block instead of appending it.
RECURSIVE ConcatBlocksReversed(_)
ConcatBlocksReversed(documents) ==
    IF documents = <<>> THEN <<>>
    ELSE ConcatBlocksReversed(Tail(documents)) \o ContextBlock(Head(documents))

RECURSIVE ConcatBlocks(_)
ConcatBlocks(documents) ==
    IF documents = <<>> THEN <<>>
    ELSE ContextBlock(Head(documents)) \o ConcatBlocks(Tail(documents))

\* "\n".join(sources_list)
RECURSIVE JoinBullets(_)
JoinBullets(documents) ==
    IF documents = <<>> THEN <<>>
    ELSE IF Len(documents) = 1 THEN SourceBullet(Head(documents))
    ELSE SourceBullet(Head(documents)) \o <<"\n">> \o JoinBullets(Tail(documents))

\* _create_context(documents): the (context, sources) pair, or the exception the
\* first document that cannot be formatted raises at line 608.
CreateContext(documents) ==
    IF \E i \in 1..Len(documents) : ~Formattable(documents[i])
    THEN [status |-> "raised", context |-> <<>>, sources |-> <<>>]
    ELSE [status |-> "returned",
          context |-> ConcatBlocks(documents),
          sources |-> <<"Fuentes consultadas:\n">> \o JoinBullets(documents)]

\* ------------------------------------------------------ _find_relevant_chunks
\* str.replace('"', '\\"') of line 536 on a string given as its characters.
RECURSIVE EscapeQuotes(_)
EscapeQuotes(value) ==
    IF value = <<>> THEN <<>>
    ELSE (IF Head(value) = "\"" THEN <<"\\", "\"">> ELSE <<Head(value)>>)
         \o EscapeQuotes(Tail(value))

\* entity_list of lines 535-538 from the tagger's (type, value) pairs.
EntityList(extracted_entities) ==
    [i \in 1..Len(extracted_entities) |->
        [type |-> extracted_entities[i][1],
         value |-> EscapeQuotes(extracted_entities[i][2])]]

\* The filter argument of a hybrid search: line 542, or none (lines 571-581).
ContainsAnyFilter(entity_list) ==
    [op |-> "JSON_CONTAINS_ANY", field |-> "entities", values |-> entity_list]

NoFilter == [op |-> "none", field |-> "", values |-> <<>>]

\* The test of line 564 for one hit.
HitMatches(hit, entity_list) ==
    \E i \in 1..Len(entity_list) : entity_list[i] \in Range(hit.entities)

\* The state of a _find_relevant_chunks call that has not been made.
NoFind ==
    [status |-> "idle", entities |-> <<>>,
     filtered |-> [raises |-> FALSE, result |-> <<>>],
     unfiltered |-> [raises |-> FALSE, result |-> <<>>],
     searches |-> <<>>, result |-> <<>>]

\* Lines 569-582: the general search, guarded by the test of line 570, and the
\* return of response[0]. `response` is the SearchResult held so far (<<>> is
\* Python's None before any search), `searches` the filters of the searches issued.
GeneralSearchAndReturn(extracted_entities, response, searches, unfilteredAnswer) ==
    IF extracted_entities = <<>> \/ Len(response) = 0
    THEN IF unfilteredAnswer.raises \/ Len(unfilteredAnswer.result) = 0
         THEN [status |-> "raised", searches |-> Append(searches, NoFilter),
               result |-> <<>>]
         ELSE [status |-> "returned", searches |-> Append(searches, NoFilter),
               result |-> unfilteredAnswer.result[1]]
    ELSE [status |-> "returned", searches |-> searches, result |-> response[1]]

\* _find_relevant_chunks(query, n_results) from line 532 on. extracted_entities
\* is the tagger's output for the query; filteredAnswer and unfilteredAnswer are
\* what the store does on a hybrid search with and without the filter: it
\* raises, or returns a SearchResult (a list of hit lists, one per query vector).
FindRelevantChunks(extracted_entities, filteredAnswer, unfilteredAnswer) ==
    LET entity_list == EntityList(extracted_entities)
        out ==
            IF extracted_entities # <<>>
            THEN IF filteredAnswer.raises \/ Len(filteredAnswer.result) = 0
                 THEN \* the search raises, or response[0] does at line 562
                      [status |-> "raised",
                       searches |-> <<ContainsAnyFilter(entity_list)>>,
                       result |-> <<>>]
                 ELSE LET response == filteredAnswer.result
                          hits == SelectSeq(response[1],
                                            LAMBDA hit : HitMatches(hit, entity_list))
                          refiltered == IF hits # <<>>
                                        THEN [response EXCEPT ![1] = hits]
                                        ELSE response
                      IN  GeneralSearchAndReturn(extracted_entities, refiltered,
                              <<ContainsAnyFilter(entity_list)>>, unfilteredAnswer)
            ELSE GeneralSearchAndReturn(extracted_entities, <<>>, <<>>,
                                        unfilteredAnswer)
    IN  [status |-> out.status, entities |-> extracted_entities,
         filtered |-> filteredAnswer, unfiltered |-> unfilteredAnswer,
         searches |-> out.searches, result |-> out.result]

\* Entities the tagger extracts from queries: a decree number, and a place
\* whose name holds a double quote.
QueryEntities == { <<"LAW", <<"7">> >>, <<"LOC", <<"\"", "x">> >> }

\* The tagger's outputs for the queries asked.
ExtractedEntityLists ==
    {<<>>} \cup {<<e>> : e \in QueryEntities}
           \cup { << <<"LAW", <<"7">> >>, <<"LOC", <<"\"", "x">> >> >> }

\* Entity lists persisted with chunks.
StoredEntityLists ==
    { <<>>,
      <<[type |-> "LAW", value |-> <<"7">>]>>,
      <<[type |-> "LOC", value |-> <<"\"", "x">>]>>,
      <<[type |-> "LOC", value |-> <<"\\", "\"", "x">>]>> }

\* Hits of a filtered search (output_fields parent_id and entities).
FilteredHits == {[parent_id |-> "d1", entities |-> es] : es \in StoredEntityLists}

\* Hits of a general search (output_fields parent_id only).
GeneralHits == {Hit(p) : p \in ParentIds}

\* What the store may do on one hybrid search whose hits come from H.
StoreAnswers(H) ==
    {[raises |-> TRUE, result |-> <<>>], [raises |-> FALSE, result |-> <<>>]}
    \cup {[raises |-> FALSE, result |-> <<hits>>] : hits \in SeqsUpTo(H, MaxAnswer)}

FindRelevantChunksCall ==
    /\ frc.status = "idle"
    /\ gc.status = "idle"
    /\ \E extracted_entities \in ExtractedEntityLists,
          filteredAnswer \in StoreAnswers(FilteredHits),
          unfilteredAnswer \in StoreAnswers(GeneralHits) :
            frc' = FindRelevantChunks(extracted_entities, filteredAnswer,
                                      unfilteredAnswer)
    /\ UNCHANGED <<docs, gc, gcr, chunksColl, ing, colls, lt>>

\* ---------------------------------------------------- _generate_chunk_records
\* Config.get("chunk_size"): the characters of a chunk's text that are persisted.
ChunkSize == 2

\* chunk.id.split("_")[0]: the characters before the first "_" (all of them
\* when there is none).
RECURSIVE SplitFirst(_)
SplitFirst(id) ==
    IF id = <<>> \/ Head(id) = "_" THEN <<>>
    ELSE <<Head(id)>> \o SplitFirst(Tail(id))

\* Lines 420-429 always appending: no test whether the LAW entity exists.
InjectLawEntityAlways(entities_list, parent_document_id) ==
    Append(entities_list, [type |-> "LAW", value |-> parent_document_id])

\* Lines 420-429: append the LAW entity of the parent unless the list has it.
InjectLawEntity(entities_list, parent_document_id) ==
    LET law_entity_exists ==
            \E k \in 1..Len(entities_list) :
                /\ entities_list[k].type = "LAW"
                /\ entities_list[k].value = parent_document_id
    IN  IF ~law_entity_exists
        THEN Append(entities_list, [type |-> "LAW", value |-> parent_document_id])
        ELSE entities_list

\* The dense vector the provider returns for a text, and the one-row matrix the
\* sparse provider returns for it.
DenseOf(text) == [dense |-> text]

RawSparseOf(text) == << [sparse |-> text] >>

\* Lines 414-439 for chunk i: the record built from the chunk, the embeddings
\* and the tagger's output `entities` for its text.
ChunkRecord(chunk, dense_embedding, sparse_embedding, entities) ==
    LET entities_list == [k \in 1..Len(entities) |->
                             [type |-> entities[k][1], value |-> entities[k][2]]]
        parent_document_id == SplitFirst(chunk.id)
    IN  [id |-> chunk.id,
         dense_vector |-> dense_embedding,
         sparse_vector |-> sparse_embedding,
         parent_id |-> IF "parent_id" \in DOMAIN chunk.metadata
                       THEN chunk.metadata["parent_id"] ELSE <<"0">>,
         text |-> PySlice(chunk.text, 0, ChunkSize),
         entities |-> InjectLawEntity(entities_list, parent_document_id)]

\* _generate_chunk_records that asks the dense provider for one chunk at a time
\* instead of once for the whole list (line 400 moved into the loop).
GenerateChunkRecordsDensePerChunk(chunks, tagged, fail) ==
    LET chunk_texts == [i \in 1..Len(chunks) |-> chunks[i].text]
        dense_embeddings == [i \in 1..Len(chunk_texts) |-> DenseOf(chunk_texts[i])]
        sparse_embeddings ==
            [i \in 1..Len(chunk_texts) |-> RawSparseOf(chunk_texts[i])[1]]
    IN  IF fail = "dense"
        THEN [status |-> "raised", records |-> <<>>,
              dense_calls |-> 1, sparse_calls |-> 0, tagger_calls |-> 0]
        ELSE IF fail = "sparse"
        THEN [status |-> "raised", records |-> <<>>,
              dense_calls |-> Len(chunks), sparse_calls |-> 1, tagger_calls |-> 0]
        ELSE IF fail = "tagger" /\ chunks # <<>>
        THEN [status |-> "raised", records |-> <<>>,
              dense_calls |-> Len(chunks), sparse_calls |-> 1, tagger_calls |-> 1]
        ELSE [status |-> "returned",
              records |-> [i \in 1..Len(chunks) |->
                              ChunkRecord(chunks[i], dense_embeddings[i],
                                          sparse_embeddings[i], tagged[i])],
              dense_calls |-> Len(chunks), sparse_calls |-> 1,
              tagger_calls |-> Len(chunks)]

\* _generate_chunk_records that pairs chunk i with the sparse vector of the
\* chunk at the mirrored position.
GenerateChunkRecordsSparseMirrored(chunks, tagged, fail) ==
    LET chunk_texts == [i \in 1..Len(chunks) |-> chunks[i].text]
        dense_embeddings == [i \in 1..Len(chunk_texts) |-> DenseOf(chunk_texts[i])]
        sparse_embeddings ==
            [i \in 1..Len(chunk_texts) |-> RawSparseOf(chunk_texts[i])[1]]
    IN  IF fail = "dense"
        THEN [status |-> "raised", records |-> <<>>,
              dense_calls |-> 1, sparse_calls |-> 0, tagger_calls |-> 0]
        ELSE IF fail = "sparse"
        THEN [status |-> "raised", records |-> <<>>,
              dense_calls |-> 1, sparse_calls |-> 1, tagger_calls |-> 0]
        ELSE IF fail = "tagger" /\ chunks # <<>>
        THEN [status |-> "raised", records |-> <<>>,
              dense_calls |-> 1, sparse_calls |-> 1, tagger_calls |-> 1]
        ELSE [status |-> "returned",
              records |-> [i \in 1..Len(chunks) |->
                              ChunkRecord(chunks[i], dense_embeddings[i],
                                          sparse_embeddings[Len(chunks) + 1 - i],
                                          tagged[i])],
              dense_calls |-> 1, sparse_calls |-> 1, tagger_calls |-> Len(chunks)]

\* _generate_chunk_records(chunks). tagged[i] is the tagger's output for chunk
\* i; fail names the provider that raises: "dense" (line 400), "sparse" (line
\* 403), "tagger" (line 415, on the first chunk), or "none". The result holds
\* the records, or status "raised", and the calls made to each provider.
GenerateChunkRecords(chunks, tagged, fail) ==
    LET chunk_texts == [i \in 1..Len(chunks) |-> chunks[i].text]
        dense_embeddings == [i \in 1..Len(chunk_texts) |-> DenseOf(chunk_texts[i])]
        raw_sparse_embeddings ==
            [i \in 1..Len(chunk_texts) |-> RawSparseOf(chunk_texts[i])]
        sparse_embeddings ==
            [i \in 1..Len(raw_sparse_embeddings) |-> raw_sparse_embeddings[i][1]]
    IN  IF fail = "dense"
        THEN [status |-> "raised", records |-> <<>>,
              dense_calls |-> 1, sparse_calls |-> 0, tagger_calls |-> 0]
        ELSE IF fail = "sparse"
        THEN [status |-> "raised", records |-> <<>>,
              dense_calls |-> 1, sparse_calls |-> 1, tagger_calls |-> 0]
        ELSE IF fail = "tagger" /\ chunks # <<>>
        THEN [status |-> "raised", records |-> <<>>,
              dense_calls |-> 1, sparse_calls |-> 1, tagger_calls |-> 1]
        ELSE [status |-> "returned",
              records |-> [i \in 1..Len(chunks) |->
                              ChunkRecord(chunks[i], dense_embeddings[i],
                                          sparse_embeddings[i], tagged[i])],
              dense_calls |-> 1, sparse_calls |-> 1, tagger_calls |-> Len(chunks)]

\* A chunk as the chunker hands it over.
Chunk(id, text) ==
    [id |-> id, text |-> text, metadata |-> [parent_id |-> SplitFirst(id)]]

\* Chunks handed to _generate_chunk_records: two of decree 7, one of decree 8,
\* and one whose id holds no "_".
SomeChunks ==
    { Chunk(<<"7", "_", "0">>, <<"a">>), Chunk(<<"7", "_", "1">>, <<"b", "c", "d">>),
      Chunk(<<"8", "_", "0">>, <<"e">>), Chunk(<<"9">>, <<"f">>) }

\* Entities the tagger finds in chunk texts.
ChunkEntities == { <<"LAW", <<"7">> >>, <<"LOC", <<"x">> >> }

\* The state of a _generate_chunk_records call that has not been made.
NoRecords ==
    [status |-> "idle", chunks |-> <<>>, tagged |-> <<>>, fail |-> "none",
     records |-> <<>>, dense_calls |-> 0, sparse_calls |-> 0, tagger_calls |-> 0]

GenerateChunkRecordsCall ==
    /\ gcr.status = "idle"
    /\ \E n \in 0..MaxChunks :
       \E chunks \in [1..n -> SomeChunks],
          tagged \in [1..n -> SeqsUpTo(ChunkEntities, MaxTags)],
          fail \in {"none", "dense", "sparse", "tagger"} :
            LET out == GenerateChunkRecords(chunks, tagged, fail)
            IN  gcr' = [status |-> out.status, chunks |-> chunks, tagged |-> tagged,
                        fail |-> fail, records |-> out.records,
                        dense_calls |-> out.dense_calls,
                        sparse_calls |-> out.sparse_calls,
                        tagger_calls |-> out.tagger_calls]
    /\ UNCHANGED <<docs, gc, frc, chunksColl, ing, colls, lt>>

\* _process_and_insert_chunk_batch goes on at line 366, or the exception has
\* propagated: the call is over.
GenerateChunkRecordsDone ==
    /\ gcr.status \in {"returned", "raised"}
    /\ gcr' = NoRecords
    /\ UNCHANGED <<docs, gc, frc, chunksColl, ing, colls, lt>>

\* ------------------------------------------------------- the store's collections
\* Config.get("run_mode") as _load_collections and _ingest_folder know it.
RunModes == {"RES_LOAD", "RES_LOAD_FILES", "NO_RES_NO_LOAD"}

\* An operation sent to the store, with the collections the store held then.
StoreOp(op, coll, existing) == [op |-> op, coll |-> coll, existing |-> existing]

\* A LongTermMemory object whose construction is over, on a store that holds the
\* two collections.
NoLifecycle ==
    [pc |-> "up", run_mode |-> "NO_RES_NO_LOAD", call |-> "none", ops |-> <<>>,
     chunks_before |-> <<>>, doc_insert |-> "none", deleted_all |-> FALSE]

\* ------------------------------------------------ _process_and_insert_chunks
DigitChars == <<"0", "1", "2", "3", "4", "5", "6", "7", "8", "9">>

\* The character of a one-digit number.
Digit(k) == DigitChars[(k % 10) + 1]

\* The passages of the document at list index j: one, two, or (an empty text)
\* none.
PassagesOf(j) ==
    CASE j % 3 = 0 -> << <<"a">> >>
      [] j % 3 = 1 -> << <<"b">>, <<"c", "d", "e">> >>
      [] OTHER -> <<>>

\* The document at index j of the list handed to the ingestion.
SourceDocument(j) == Document(<<Digit(j)>>, PassagesOf(j), [number |-> Digit(j)])

\* A document list of n documents.
SourceDocuments(n) == [p \in 1..n |-> SourceDocument(p - 1)]

\* The chunker on one document: a chunk per passage, its id the document's id,
\* "_" and the passage's sequence number.
ChunksOfDocument(doc) ==
    [k \in 1..Len(doc.text) |-> Chunk(doc.id \o <<"_", Digit(k - 1)>>, doc.text[k])]

\* self._doc_engine._chunk_documents(documents)
RECURSIVE ChunkDocuments(_)
ChunkDocuments(documents) ==
    IF documents = <<>> THEN <<>>
    ELSE ChunksOfDocument(Head(documents)) \o ChunkDocuments(Tail(documents))

\* The tagger on a chunk text during ingestion.
TagText(text) == IF text = <<"a">> THEN << <<"LOC", <<"x">> >> >> ELSE <<>>

\* _process_and_insert_chunk_batch in a store that undoes the whole load when a
\* batch fails: no chunk record of the call survives.
ProcessAndInsertChunkBatchRollback(batch_documents, store, fail, partial) ==
    IF fail = "chunker"
    THEN [raised |-> TRUE, store |-> <<>>,
          dense_calls |-> 0, sparse_calls |-> 0, tagger_calls |-> 0]
    ELSE LET batch_chunks == ChunkDocuments(batch_documents)
             tagged == [i \in 1..Len(batch_chunks) |-> TagText(batch_chunks[i].text)]
             gen == GenerateChunkRecords(batch_chunks, tagged, fail)
         IN  IF gen.status = "raised" \/ fail = "insert"
             THEN [raised |-> TRUE, store |-> <<>>,
                   dense_calls |-> gen.dense_calls, sparse_calls |-> gen.sparse_calls,
                   tagger_calls |-> gen.tagger_calls]
             ELSE [raised |-> FALSE, store |-> store \o gen.records,
                   dense_calls |-> gen.dense_calls, sparse_calls |-> gen.sparse_calls,
                   tagger_calls |-> gen.tagger_calls]

\* _process_and_insert_chunk_batch that inserts each record as soon as its dense
\* vector is there: a failure of the sparse provider leaves records behind.
ProcessAndInsertChunkBatchEager(batch_documents, store, fail, partial) ==
    IF fail = "chunker"
    THEN [raised |-> TRUE, store |-> store,
          dense_calls |-> 0, sparse_calls |-> 0, tagger_calls |-> 0]
    ELSE LET batch_chunks == ChunkDocuments(batch_documents)
             tagged == [i \in 1..Len(batch_chunks) |-> TagText(batch_chunks[i].text)]
             gen == GenerateChunkRecords(batch_chunks, tagged, fail)
             built == GenerateChunkRecords(batch_chunks, tagged, "none").records
         IN  IF gen.status = "raised"
             THEN [raised |-> TRUE,
                   store |-> IF fail = "sparse" THEN store \o built ELSE store,
                   dense_calls |-> gen.dense_calls, sparse_calls |-> gen.sparse_calls,
                   tagger_calls |-> gen.tagger_calls]
             ELSE IF fail = "insert"
             THEN [raised |-> TRUE,
                   store |-> store \o PySlice(gen.records, 0, partial),
                   dense_calls |-> gen.dense_calls, sparse_calls |-> gen.sparse_calls,
                   tagger_calls |-> gen.tagger_calls]
             ELSE [raised |-> FALSE, store |-> store \o gen.records,
                   dense_calls |-> gen.dense_calls, sparse_calls |-> gen.sparse_calls,
                   tagger_calls |-> gen.tagger_calls]

\* _process_and_insert_chunk_batch(batch_documents) on the chunks collection
\* `store`. fail names the step that raises: "chunker" (line 360), "dense",
\* "sparse" or "tagger" (line 363), "insert" (line 366), or "none". An insert
\* that raises may have persisted any `partial` leading records of the batch.
ProcessAndInsertChunkBatch(batch_documents, store, fail, partial) ==
    IF fail = "chunker"
    THEN [raised |-> TRUE, store |-> store,
          dense_calls |-> 0, sparse_calls |-> 0, tagger_calls |-> 0]
    ELSE LET batch_chunks == ChunkDocuments(batch_documents)
             tagged == [i \in 1..Len(batch_chunks) |-> TagText(batch_chunks[i].text)]
             gen == GenerateChunkRecords(batch_chunks, tagged, fail)
         IN  IF gen.status = "raised"
             THEN [raised |-> TRUE, store |-> store,
                   dense_calls |-> gen.dense_calls, sparse_calls |-> gen.sparse_calls,
                   tagger_calls |-> gen.tagger_calls]
             ELSE IF fail = "insert"
             THEN [raised |-> TRUE,
                   store |-> store \o PySlice(gen.records, 0, partial),
                   dense_calls |-> gen.dense_calls, sparse_calls |-> gen.sparse_calls,
                   tagger_calls |-> gen.tagger_calls]
             ELSE [raised |-> FALSE, store |-> store \o gen.records,
                   dense_calls |-> gen.dense_calls, sparse_calls |-> gen.sparse_calls,
                   tagger_calls |-> gen.tagger_calls]

\* num_batches of lines 321-323 without the batch for the remainder.
NumBatchesFloor(n_adjusted, batch_size) == n_adjusted \div batch_size

\* num_batches of lines 321-323 for len(adjusted_docs) = n_adjusted.
NumBatches(n_adjusted, batch_size) ==
    (n_adjusted \div batch_size) + (IF n_adjusted % batch_size > 0 THEN 1 ELSE 0)

\* next_start_from naming the failed batch's own start.
NextStartFromStartIdx(start_idx, end_idx, batch_size) == start_idx

\* The offset the alternative named in the comment of line 343 would log.
NextStartFromEndIdx(start_idx, end_idx, batch_size) == end_idx

\* next_start_from of lines 341-343.
NextStartFrom(start_idx, end_idx, batch_size) == start_idx + batch_size

\* No ingestion has been called.
NoIngest ==
    [pc |-> "idle", documents |-> <<>>, batch_size |-> 1, start_from |-> 0,
     num_batches |-> 0, i |-> 0, attempts |-> <<>>, logged |-> -1,
     first_start |-> 0, completed |-> {}, calls |-> 0,
     dense_calls |-> 0, sparse_calls |-> 0, tagger_calls |-> 0]

\* Lines 319-328: entry of _process_and_insert_chunks(documents, batch_size,
\* start_from); with no batch to process the call completes at once (line 349).
\* first_start, completed and calls carry over a chain of resumed calls.
StartIngest(documents, batch_size, start_from, first_start, completed, calls) ==
    LET adjusted_docs == PySlice(documents, start_from, Len(documents))
        num_batches == NumBatches(Len(adjusted_docs), batch_size)
    IN  [pc |-> IF num_batches = 0 THEN "done" ELSE "loop",
         documents |-> documents, batch_size |-> batch_size,
         start_from |-> start_from, num_batches |-> num_batches, i |-> 0,
         attempts |-> <<>>, logged |-> -1,
         first_start |-> first_start, completed |-> completed, calls |-> calls + 1,
         dense_calls |-> 0, sparse_calls |-> 0, tagger_calls |-> 0]

\* A caller starts an ingestion of a document list.
IngestCall ==
    /\ ing.pc = "idle"
    /\ \E n \in 0..MaxDocs, batch_size \in 1..MaxBatch :
       \E start_from \in 0..n :
            ing' = StartIngest(SourceDocuments(n), batch_size, start_from,
                               start_from, {}, 0)
    /\ UNCHANGED <<docs, gc, frc, gcr, chunksColl, colls, lt>>

\* After a failed call the caller calls again, on the same documents, with
\* start_from set to the offset the failed call logged.
ResumeCall ==
    /\ ing.pc = "raised"
    /\ ing' = StartIngest(ing.documents, ing.batch_size, ing.logged,
                          ing.first_start, ing.completed, ing.calls)
    /\ UNCHANGED <<docs, gc, frc, gcr, chunksColl, colls, lt>>

\* Lines 329-347 for batch i, and line 349 after the last batch.
ProcessBatch ==
    /\ ing.pc = "loop"
    /\ ing.i < ing.num_batches
    /\ LET start_idx == ing.start_from + ing.i * ing.batch_size
           end_idx == Min(ing.start_from + (ing.i + 1) * ing.batch_size,
                          Len(ing.documents))
           batch_documents == PySlice(ing.documents, start_idx, end_idx)
           ids == [k \in 1..Len(batch_documents) |-> batch_documents[k].id]
       IN  \E fail \in {"none", "chunker", "dense", "sparse", "tagger", "insert"},
              partial \in 0..Len(ChunkDocuments(batch_documents)) :
            LET out == ProcessAndInsertChunkBatch(batch_documents, chunksColl, fail,
                                                  partial)
                attempt == [start_idx |-> start_idx, end_idx |-> end_idx,
                            batch |-> ids, fail |-> fail, raised |-> out.raised,
                            n_chunks |-> Len(ChunkDocuments(batch_documents)),
                            dense_calls |-> out.dense_calls,
                            sparse_calls |-> out.sparse_calls,
                            tagger_calls |-> out.tagger_calls]
                issued == IF fail \in {"none", "insert"}
                          THEN <<StoreOp("insert", "chunks", colls)>> ELSE <<>>
            IN  /\ fail # "insert" => partial = 0
                /\ "chunks" \notin colls => fail # "none" /\ partial = 0
                /\ chunksColl' = out.store
                /\ lt' = [lt EXCEPT !.ops = @ \o issued]
                /\ ing' = [ing EXCEPT
                     !.attempts = Append(@, attempt),
                     !.dense_calls = @ + out.dense_calls,
                     !.sparse_calls = @ + out.sparse_calls,
                     !.tagger_calls = @ + out.tagger_calls,
                     !.logged = IF out.raised
                                THEN NextStartFrom(start_idx, end_idx, ing.batch_size)
                                ELSE @,
                     !.completed = IF out.raised THEN @ ELSE @ \cup Range(ids),
                     !.i = IF out.raised THEN @ ELSE @ + 1,
                     !.pc = IF out.raised THEN "raised"
                            ELSE IF ing.i + 1 = ing.num_batches THEN "done"
                            ELSE "loop"]
    /\ UNCHANGED <<docs, gc, frc, gcr, colls>>

\* ---------------------------------------------------------------- get_context
\* The state of a get_context call that has not been made.
NoCall ==
    [status |-> "idle", results |-> <<>>, n_docs |-> 0, unique_parent_ids |-> <<>>,
     documents |-> <<>>, context |-> <<>>, sources |-> <<>>]

\* get_context(query, n_docs) from line 485 on: `results` is what
\* _find_relevant_chunks returned for the query.
GetContextFrom(results, n_docs, store, errs) ==
    LET documents == RetrieveParentDocuments(results, n_docs, store, errs)
        out == CreateContext(documents)
    IN  [status |-> out.status, results |-> results, n_docs |-> n_docs,
         unique_parent_ids |-> UniqueParentIds(results, n_docs),
         documents |-> documents, context |-> out.context, sources |-> out.sources]

GetContext ==
    /\ gc.status = "idle"
    /\ \E results \in SeqsUpTo({Hit(p) : p \in ParentIds}, MaxHits),
          n_docs \in 0..MaxNDocs,
          errs \in SUBSET ParentIds :
            gc' = GetContextFrom(results, n_docs, docs, errs)
    /\ UNCHANGED <<docs, frc, gcr, chunksColl, ing, colls, lt>>

\* Chatbot.respond_w_context after its get_context call: the turn ends (the
\* response is returned, or the exception has propagated) and the context is gone.
EndTurn ==
    /\ gc.status \in {"returned", "raised"} \/ frc.status \in {"returned", "raised"}
    /\ gc' = NoCall
    /\ frc' = NoFind
    /\ UNCHANGED <<docs, gcr, chunksColl, ing, colls, lt>>

\* ------------------------------------------- startup, delete_documents, add_documents
\* The store as one value: its collection names and the records of docs and chunks.
Store(names, docRecords, chunkRecords) ==
    [colls |-> names, docs |-> docRecords, chunks |-> chunkRecords]

\* self._client.drop_collection(name): the collection and its records are gone.
DropCollection(store, name) ==
    Store(store.colls \ {name},
          IF name = "docs" THEN {} ELSE store.docs,
          IF name = "chunks" THEN <<>> ELSE store.chunks)

\* The orders in which list_collections may name the collections of a set.
Orderings(S) == {order \in [1..Cardinality(S) -> S] : Range(order) = S}

\* The loop of lines 289-290 over `collections` from position k on.
RECURSIVE DropEach(_, _, _)
DropEach(store, collections, k) ==
    IF k > Len(collections) THEN [store |-> store, ops |-> <<>>]
    ELSE LET rest == DropEach(DropCollection(store, collections[k]), collections, k + 1)
         IN  [store |-> rest.store,
              ops |-> <<StoreOp("drop_collection", collections[k], store.colls)>>
                      \o rest.ops]

\* delete_documents(collection); `listed` is what list_collections returns.
DeleteDocumentsOn(collection, store, listed) ==
    IF collection = "all"
    THEN DropEach(store, listed, 1)
    ELSE [store |-> DropCollection(store, collection),
          ops |-> <<StoreOp("drop_collection", collection, store.colls)>>]

\* _load_docs_collection: create the collection and its index when it is
\* absent, then load it.
LoadDocsCollection(store) ==
    IF "docs" \notin store.colls
    THEN LET created == Store(store.colls \cup {"docs"}, {}, store.chunks)
         IN  [store |-> created,
              ops |-> <<StoreOp("create_collection", "docs", store.colls),
                        StoreOp("create_index", "docs", created.colls),
                        StoreOp("load_collection", "docs", created.colls)>>]
    ELSE [store |-> store,
          ops |-> <<StoreOp("load_collection", "docs", store.colls)>>]

\* _load_chunks_collection: create the collection when it is absent, then
\* create its indexes (line 201, whether or not it was absent) and load it.
LoadChunksCollection(store) ==
    LET created == IF "chunks" \notin store.colls
                   THEN Store(store.colls \cup {"chunks"}, store.docs, <<>>)
                   ELSE store
        creation == IF "chunks" \notin store.colls
                    THEN <<StoreOp("create_collection", "chunks", store.colls)>>
                    ELSE <<>>
    IN  [store |-> created,
         ops |-> creation \o <<StoreOp("create_index", "chunks", created.colls),
                               StoreOp("load_collection", "chunks", created.colls)>>]

\* _load_collections with the reset of lines 107-108 moved behind the loading.
LoadCollectionsResetLast(run_mode, store, listed) ==
    LET docsLoaded == LoadDocsCollection(store)
        chunksLoaded == LoadChunksCollection(docsLoaded.store)
        reset == IF run_mode = "RES_LOAD"
                 THEN DeleteDocumentsOn("all", chunksLoaded.store, listed)
                 ELSE [store |-> chunksLoaded.store, ops |-> <<>>]
    IN  [store |-> reset.store,
         ops |-> docsLoaded.ops \o chunksLoaded.ops \o reset.ops]

\* _load_collections up to line 112: the reset of run mode RES_LOAD, then the
\* loading of the two collections in every run mode.
LoadCollections(run_mode, store, listed) ==
    LET reset == IF run_mode = "RES_LOAD"
                 THEN DeleteDocumentsOn("all", store, listed)
                 ELSE [store |-> store, ops |-> <<>>]
        docsLoaded == LoadDocsCollection(reset.store)
        chunksLoaded == LoadChunksCollection(docsLoaded.store)
    IN  [store |-> chunksLoaded.store,
         ops |-> reset.ops \o docsLoaded.ops \o chunksLoaded.ops]

\* Config.get("doc_size"): the passages of a document's text that are persisted.
DocSize == 2

\* batch_size of _process_and_insert_chunks when the caller passes none.
DefaultBatchSize == 10

\* n_docs of get_context when the caller passes none.
DefaultNDocs == 2

\* The record _generate_doc_records builds for one document (lines 371-385).
DocRecordOf(doc) ==
    [id |-> doc.id,
     page |-> IF "page" \in DOMAIN doc.metadata THEN doc.metadata["page"] ELSE "0",
     date |-> IF "date" \in DOMAIN doc.metadata THEN doc.metadata["date"] ELSE "",
     type |-> IF "type" \in DOMAIN doc.metadata THEN doc.metadata["type"] ELSE "",
     number |-> IF "number" \in DOMAIN doc.metadata
                THEN doc.metadata["number"] ELSE "0",
     text |-> PySlice(doc.text, 0, DocSize),
     docs_vector |-> "zero"]

\* _generate_doc_records(documents)
GenerateDocRecords(documents) ==
    [i \in 1..Len(documents) |-> DocRecordOf(documents[i])]

\* self._client.insert(collection_name="docs", data=doc_records): the store
\* raises when it holds no docs collection, and persists the records otherwise.
InsertDocRecords(doc_records, store) ==
    [raised |-> "docs" \notin store.colls,
     store |-> IF "docs" \in store.colls
               THEN Store(store.colls, store.docs \cup Range(doc_records), store.chunks)
               ELSE store,
     ops |-> <<StoreOp("insert", "docs", store.colls)>>]

\* Lines 297-304 of add_documents and 126-131 of _ingest_folder: the doc records
\* of all documents go to docs in one insert; the chunk ingestion starts only
\* when that insert has returned.
InsertThenIngest(documents, store) ==
    LET inserted == InsertDocRecords(GenerateDocRecords(documents), store)
    IN  [raised |-> inserted.raised, store |-> inserted.store, ops |-> inserted.ops,
         ing |-> IF inserted.raised THEN NoIngest
                 ELSE StartIngest(documents, DefaultBatchSize, 0, 0, {}, 0)]

\* _ingest_folder: only run mode RES_LOAD reads the raw folder.
IngestFolder(run_mode, documents, store) ==
    IF run_mode = "RES_LOAD"
    THEN InsertThenIngest(documents, store)
    ELSE [raised |-> FALSE, store |-> store, ops |-> <<>>, ing |-> NoIngest]

\* No call is in progress on the LongTermMemory object.
Quiet ==
    /\ lt.pc = "up"
    /\ ing.pc \in {"idle", "done", "raised"}
    /\ gc.status = "idle"
    /\ frc.status = "idle"

\* __init__: _load_collections on whatever the store holds, the raw folder
\* holding `n` files. The chunk batches of a RES_LOAD follow as ProcessBatch steps.
Startup(n) ==
    /\ lt.pc = "new"
    /\ lt.run_mode # "RES_LOAD" => n = 0
    /\ \E listed \in Orderings(colls) :
        LET loaded == LoadCollections(lt.run_mode, Store(colls, docs, chunksColl),
                                      listed)
            folder == IngestFolder(lt.run_mode, SourceDocuments(n), loaded.store)
        IN  /\ colls' = folder.store.colls
            /\ docs' = folder.store.docs
            /\ chunksColl' = folder.store.chunks
            /\ ing' = folder.ing
            /\ lt' = [lt EXCEPT !.pc = "up", !.call = "startup",
                                !.ops = loaded.ops \o folder.ops,
                                !.chunks_before = folder.store.chunks,
                                !.doc_insert = IF folder.ops = <<>> THEN "none"
                                               ELSE IF folder.raised THEN "raised"
                                               ELSE "ok"]
    /\ UNCHANGED <<gc, frc, gcr>>

\* add_documents(files) for `n` files, on a chunks collection of at most
\* `stored` records. The chunk batches follow as ProcessBatch steps.
AddDocuments(n, stored) ==
    /\ Quiet
    /\ Len(chunksColl) <= stored
    /\ LET added == InsertThenIngest(SourceDocuments(n), Store(colls, docs, chunksColl))
       IN  /\ docs' = added.store.docs
           /\ ing' = added.ing
           /\ lt' = [lt EXCEPT !.call = "add_documents", !.ops = added.ops,
                               !.deleted_all = FALSE,
                               !.chunks_before = chunksColl,
                               !.doc_insert = IF added.raised THEN "raised" ELSE "ok"]
    /\ UNCHANGED <<gc, frc, gcr, chunksColl, colls>>

\* delete_documents(collection). The frame of the ingestion an earlier call ran
\* is gone by now.
DeleteDocuments(collection) ==
    /\ Quiet
    /\ \E listed \in Orderings(colls) :
        LET deleted == DeleteDocumentsOn(collection, Store(colls, docs, chunksColl),
                                         listed)
        IN  /\ colls' = deleted.store.colls
            /\ docs' = deleted.store.docs
            /\ chunksColl' = deleted.store.chunks
            /\ lt' = [lt EXCEPT !.call = "delete_documents", !.ops = deleted.ops,
                                !.chunks_before = <<>>, !.doc_insert = "none",
                                !.deleted_all = @ \/ collection = "all"]
    /\ ing' = NoIngest
    /\ UNCHANGED <<gc, frc, gcr>>

\* The hits the store can rank from the records of its chunks collection
\* (output_fields parent_id and entities).
LiveHits(chunkRecords) ==
    {[parent_id |-> r.parent_id, entities |-> r.entities] : r \in Range(chunkRecords)}

\* The tagger's outputs for the queries asked of a loaded store: no entity, or
\* decree 0.
LiveEntityLists == {<<>>, << <<"LAW", <<"0">> >> >>}

\* get_context(query) as Chatbot calls it, against the store as it is. The store
\* ranks `ranked` for the query and applies the filter itself; a hybrid search
\* raises when the chunks collection is gone or on a store error, and a docs
\* lookup raises when the docs collection is gone.
GetContextLive ==
    /\ Quiet
    /\ \E extracted_entities \in LiveEntityLists,
          ranked \in SeqsUpTo(LiveHits(chunksColl), MaxRanked),
          store_error \in BOOLEAN :
        LET raises == store_error \/ "chunks" \notin colls
            entity_list == EntityList(extracted_entities)
            matching == SelectSeq(ranked, LAMBDA hit : HitMatches(hit, entity_list))
            filteredAnswer == [raises |-> raises,
                               result |-> IF raises THEN <<>> ELSE <<matching>>]
            unfilteredAnswer == [raises |-> raises,
                                 result |-> IF raises THEN <<>> ELSE <<ranked>>]
            found == FindRelevantChunks(extracted_entities, filteredAnswer,
                                        unfilteredAnswer)
            lookup_errs == IF "docs" \in colls THEN {}
                           ELSE {ranked[k].parent_id : k \in 1..Len(ranked)}
        IN  /\ frc' = found
            /\ gc' = IF found.status = "raised"
                     THEN [NoCall EXCEPT !.status = "raised"]
                     ELSE GetContextFrom(found.result, DefaultNDocs, docs, lookup_errs)
    /\ UNCHANGED <<docs, gcr, chunksColl, ing, colls, lt>>

\* ------------------------------------------------------------ specifications
\* Query serving over a store that already holds any subset of the documents.
InitQuery ==
    /\ docs \in DocsContents
    /\ gc = NoCall
    /\ frc = NoFind
    /\ gcr = NoRecords
    /\ chunksColl = <<>>
    /\ ing = NoIngest
    /\ colls = {"docs", "chunks"}
    /\ lt = NoLifecycle

NextQuery == GetContext \/ EndTurn

SpecQuery == InitQuery /\ [][NextQuery]_vars

\* The search stage of get_context (line 484) against any answers of the store.
InitFind ==
    /\ docs = {}
    /\ gc = NoCall
    /\ frc = NoFind
    /\ gcr = NoRecords
    /\ chunksColl = <<>>
    /\ ing = NoIngest
    /\ colls = {"docs", "chunks"}
    /\ lt = NoLifecycle

NextFind == FindRelevantChunksCall \/ EndTurn

SpecFind == InitFind /\ [][NextFind]_vars

\* Record building (line 363) for any chunks and any output of the tagger.
InitRecords ==
    /\ docs = {}
    /\ gc = NoCall
    /\ frc = NoFind
    /\ gcr = NoRecords
    /\ chunksColl = <<>>
    /\ ing = NoIngest
    /\ colls = {"docs", "chunks"}
    /\ lt = NoLifecycle

NextRecords == GenerateChunkRecordsCall \/ GenerateChunkRecordsDone

SpecRecords == InitRecords /\ [][NextRecords]_vars

\* Batched ingestion into an empty chunks collection, with manual resumes.
InitIngest ==
    /\ docs = {}
    /\ gc = NoCall
    /\ frc = NoFind
    /\ gcr = NoRecords
    /\ chunksColl = <<>>
    /\ ing = NoIngest
    /\ colls = {"docs", "chunks"}
    /\ lt = NoLifecycle

NextIngest == IngestCall \/ ProcessBatch \/ ResumeCall

SpecIngest == InitIngest /\ [][NextIngest]_vars

\* The chunk records a complete ingestion of `documents` leaves in an empty
\* chunks collection.
ChunkRecordsOf(documents) ==
    ProcessAndInsertChunkBatch(documents, <<>>, "none", 0).store

\* The numbers of files of a load: none or one default batch, and a few more.
LoadSizes == {b * DefaultBatchSize + k : b \in 0..1, k \in 0..MaxExtra}

\* The collections a store may hold when a process starts.
StoreCollections == {"docs", "chunks"}

\* Construction in any run mode on a store that holds any of the collections,
\* those of this program filled by an earlier load; then add_documents and
\* delete_documents calls.
InitLifecycle ==
    /\ colls \in SUBSET StoreCollections
    /\ docs = IF "docs" \in colls
              THEN Range(GenerateDocRecords(SourceDocuments(MaxServeFiles))) ELSE {}
    /\ chunksColl = IF "chunks" \in colls
                    THEN ChunkRecordsOf(SourceDocuments(MaxServeFiles)) ELSE <<>>
    /\ gc = NoCall
    /\ frc = NoFind
    /\ gcr = NoRecords
    /\ ing = NoIngest
    /\ \E run_mode \in RunModes :
         lt = [NoLifecycle EXCEPT !.pc = "new", !.run_mode = run_mode]

NextLifecycle ==
    \/ \E n \in LoadSizes : Startup(n)
    \/ \E n \in LoadSizes : AddDocuments(n, MaxStored)
    \/ \E collection \in {"all", "docs", "chunks"} : DeleteDocuments(collection)
    \/ ProcessBatch

SpecLifecycle == InitLifecycle /\ [][NextLifecycle]_vars

\* Query serving by a constructed LongTermMemory whose store holds the two
\* collections with the records of some documents, between memorize_info and
\* forget_info calls of the Chatbot.
InitServe ==
    /\ colls = {"docs", "chunks"}
    /\ \E n \in 0..MaxServeFiles :
         /\ docs = Range(GenerateDocRecords(SourceDocuments(n)))
         /\ chunksColl = ChunkRecordsOf(SourceDocuments(n))
    /\ gc = NoCall
    /\ frc = NoFind
    /\ gcr = NoRecords
    /\ ing = NoIngest
    /\ lt = NoLifecycle

NextServe ==
    \/ GetContextLive
    \/ EndTurn
    \/ \E n \in 0..MaxServeFiles : AddDocuments(n, MaxServed)
    \/ \E collection \in {"all", "docs", "chunks"} : DeleteDocuments(collection)
    \/ ProcessBatch

SpecServe == InitServe /\ [][NextServe]_vars

\* ------------------------------------------------------------------- claims
\* The parent ids named by a hit list.
ParentsOf(results) == {results[i].parent_id : i \in 1..Len(results)}

\* The position of the first hit of `results` that names parent `pid`.
FirstHitOf(results, pid) ==
    CHOOSE i \in 1..Len(results) :
        /\ results[i].parent_id = pid
        /\ \A j \in 1..(i - 1) : results[j].parent_id # pid

\* C1: get_context(query, n_docs=k) never returns more than k distinct
\* documents, for every k >= 0, k = 0 included.
C1_AtMostNDocsReturned ==
    gc.status = "returned" => Cardinality(Range(gc.documents)) <= gc.n_docs

\* C2: the collected parent ids are pairwise distinct, each is the parent of a
\* hit, they stand in the order of their first hits, and when the hit list
\* names fewer than n_docs parents all of them are collected and nothing else.
C2_DistinctInFirstOccurrenceOrder ==
    gc.status # "idle" =>
        LET ids == gc.unique_parent_ids IN
        /\ \A i, j \in 1..Len(ids) : i # j => ids[i] # ids[j]
        /\ Range(ids) \subseteq ParentsOf(gc.results)
        /\ \A i, j \in 1..Len(ids) :
               i < j => FirstHitOf(gc.results, ids[i]) < FirstHitOf(gc.results, ids[j])
        /\ Cardinality(ParentsOf(gc.results)) < gc.n_docs =>
               /\ Range(ids) = ParentsOf(gc.results)
               /\ Len(ids) = Cardinality(ParentsOf(gc.results))
               /\ Len(gc.documents) = Len(ids)

\* A call whose hit list repeats a parent and names fewer parents than n_docs.
C2_Witness ==
    /\ gc.status # "idle"
    /\ Len(gc.results) = 3
    /\ Cardinality(ParentsOf(gc.results)) = 2
    /\ gc.n_docs = 3
    /\ Len(gc.unique_parent_ids) = 2

\* The documents of a list that are not None.
FoundDocuments(documents) == SelectSeq(documents, LAMBDA d : d # None)

\* C10: when a lookup of a collected parent id yields None, get_context still
\* returns, with a context built from the documents that were found.
C10_MissYieldsShorterContext ==
    (gc.status # "idle" /\ None \in Range(gc.documents)) =>
        /\ gc.status = "returned"
        /\ gc.context = ConcatBlocks(FoundDocuments(gc.documents))

\* The hits of a store answer, none when it raised or held no hit list.
HitsOf(answer) ==
    IF answer.raises \/ Len(answer.result) = 0 THEN <<>> ELSE answer.result[1]

\* C3: with extracted entities and a filtered search that returns zero hits,
\* the same search is issued without the filter and its hits are returned.
C3_FallsBackWhenFilteredEmpty ==
    ( /\ frc.status # "idle"
      /\ frc.entities # <<>>
      /\ frc.filtered = [raises |-> FALSE, result |-> << <<>> >>]
      /\ ~frc.unfiltered.raises /\ Len(frc.unfiltered.result) = 1 ) =>
        /\ frc.status = "returned"
        /\ frc.searches = <<ContainsAnyFilter(EntityList(frc.entities)), NoFilter>>
        /\ frc.result = HitsOf(frc.unfiltered)

\* C4: with extracted entities, every hit returned from the filtered search
\* has an entity list holding at least one of the query's extracted entities.
C4_ReturnedHitsHoldAQueryEntity ==
    ( /\ frc.status = "returned"
      /\ frc.entities # <<>>
      /\ Len(frc.searches) = 1 ) =>
        \A i \in 1..Len(frc.result) :
            \E j \in 1..Len(frc.entities) :
                [type |-> frc.entities[j][1], value |-> frc.entities[j][2]]
                    \in Range(frc.result[i].entities)

\* p is the part of id before its first "_".
IsParentPart(p, id) ==
    /\ Len(p) <= Len(id)
    /\ \A k \in 1..Len(p) : p[k] = id[k] /\ p[k] # "_"
    /\ Len(p) < Len(id) => id[Len(p) + 1] = "_"

\* The positions of a list of entity records that hold the LAW entity of p.
LawPositions(entities, p) ==
    {k \in 1..Len(entities) : entities[k] = [type |-> "LAW", value |-> p]}

\* C8: every chunk record built holds a LAW entity whose value is the part of
\* its id before the first "_"; the tagger's entities are kept as they came, the
\* LAW entity is appended once only when the tagger did not produce it, and
\* injecting into the record's list again leaves it unchanged.
C8_LawEntityOfParentInjectedOnce ==
    gcr.status = "returned" =>
        /\ Len(gcr.records) = Len(gcr.chunks)
        /\ \A i \in 1..Len(gcr.records) :
            LET rec == gcr.records[i]
                tags == gcr.tagged[i]
                fromTagger == [k \in 1..Len(tags) |->
                                  [type |-> tags[k][1], value |-> tags[k][2]]]
            IN  \E p \in {SubSeq(rec.id, 1, n) : n \in 0..Len(rec.id)} :
                    /\ IsParentPart(p, rec.id)
                    /\ LawPositions(rec.entities, p) # {}
                    /\ LawPositions(fromTagger, p) # {} => rec.entities = fromTagger
                    /\ LawPositions(fromTagger, p) = {} =>
                           rec.entities =
                               Append(fromTagger, [type |-> "LAW", value |-> p])
                    /\ InjectLawEntity(rec.entities, p) = rec.entities

\* Records were built for a chunk whose tagger output held the LAW entity of
\* its parent and for a chunk whose tagger output did not.
C8_Witness ==
    /\ gcr.status = "returned"
    /\ Len(gcr.records) = 2
    /\ LawPositions(gcr.records[1].entities, SplitFirst(gcr.records[1].id))
           = {1}
    /\ Len(gcr.tagged[1]) = 2
    /\ gcr.tagged[2] = << <<"LOC", <<"x">> >> >>
    /\ Len(gcr.records[2].entities) = 2

\* The last element of a non-empty sequence.
Last(seq) == seq[Len(seq)]

\* The batches of a sequence of attempts, one after the other.
RECURSIVE FlattenBatches(_)
FlattenBatches(attempts) ==
    IF attempts = <<>> THEN <<>>
    ELSE Head(attempts).batch \o FlattenBatches(Tail(attempts))

\* C5: a batch that raises is the last batch its call attempts, the call ends
\* raised, and the offset it logged is the failed batch's start index plus
\* batch_size.
C5_FailureLogsStartPlusBatchSizeAndStops ==
    /\ \A k \in 1..Len(ing.attempts) :
           ing.attempts[k].raised =>
               /\ k = Len(ing.attempts)
               /\ ing.pc = "raised"
               /\ ing.logged = ing.attempts[k].start_idx + ing.batch_size
    /\ ing.pc = "raised" =>
           Len(ing.attempts) = ing.i + 1 /\ Last(ing.attempts).raised

\* The second batch of a call, a short final one, raised.
C5_Witness ==
    /\ ing.pc = "raised"
    /\ Len(ing.attempts) = 2
    /\ ing.batch_size = 2
    /\ Last(ing.attempts).start_idx = 2
    /\ Last(ing.attempts).end_idx = 3
    /\ ing.logged = 4

\* C6: a call with start_from in 0..len(documents) that completes has processed
\* exactly the documents at indices start_from..len-1, each once, in index
\* order, in consecutive batches of 1..batch_size documents.
C6_CompleteCallProcessesTheSuffixOnce ==
    (ing.pc = "done" /\ ing.start_from <= Len(ing.documents)) =>
        /\ FlattenBatches(ing.attempts) =
               [k \in 1..(Len(ing.documents) - ing.start_from) |->
                   <<Digit(ing.start_from + k - 1)>>]
        /\ \A k \in 1..Len(ing.attempts) :
               /\ Len(ing.attempts[k].batch) \in 1..ing.batch_size
               /\ ~ing.attempts[k].raised
               /\ ing.attempts[k].start_idx =
                      IF k = 1 THEN ing.start_from ELSE ing.attempts[k - 1].end_idx

\* A completed call that started past index 0 and ended with a short batch.
C6_Witness ==
    /\ ing.pc = "done"
    /\ ing.calls = 1
    /\ ing.start_from = 1
    /\ Len(ing.documents) = 4
    /\ ing.batch_size = 2
    /\ Len(ing.attempts) = 2
    /\ Len(Last(ing.attempts).batch) = 1

\* C7: when a chain of calls, each resumed at the offset the failed one
\* logged, completes, every document of documents[start_from:] of the first
\* call was processed by a batch that completed.
C7_ResumeSkipsNoDocument ==
    ing.pc = "done" =>
        \A j \in ing.first_start..(Len(ing.documents) - 1) :
            <<Digit(j)>> \in ing.completed

\* C9: a batch in which the dense or the sparse embedding call fails ends its
\* call raised and leaves the chunks collection as it was.
C9_EmbeddingFailureInsertsNothing ==
    [][ ( /\ ing.pc = "loop"
          /\ Len(ing'.attempts) = Len(ing.attempts) + 1
          /\ Last(ing'.attempts).fail \in {"dense", "sparse"} ) =>
            /\ ing'.pc = "raised"
            /\ chunksColl' = chunksColl ]_vars

\* The sparse provider failed on a batch that has chunks, after an earlier
\* batch was inserted.
C9_Witness ==
    /\ ing.pc = "raised"
    /\ Len(ing.attempts) = 2
    /\ Last(ing.attempts).fail = "sparse"
    /\ Last(ing.attempts).batch = << <<"1">> >>
    /\ Len(chunksColl) = 1

\* C20: each ingested batch cost exactly one call of the dense provider, one of
\* the sparse provider and one tagger call per chunk of the batch; a call that
\* ingested all its B batches made exactly B dense and B sparse calls.
C20_OneEmbeddingCallPerBatch ==
    /\ \A k \in 1..Len(ing.attempts) :
          ~ing.attempts[k].raised =>
            /\ ing.attempts[k].dense_calls = 1
            /\ ing.attempts[k].sparse_calls = 1
            /\ ing.attempts[k].tagger_calls = ing.attempts[k].n_chunks
    /\ ing.pc = "done" =>
          /\ ing.dense_calls = ing.num_batches
          /\ ing.sparse_calls = ing.num_batches

\* A call ingested three batches, one of them with two chunks.
C20_Witness ==
    /\ ing.pc = "done"
    /\ ing.num_batches = 3
    /\ \E k \in 1..Len(ing.attempts) : ing.attempts[k].n_chunks = 2

HasNumberAndPage(doc) ==
    /\ doc.kind = "Document"
    /\ "number" \in DOMAIN doc.metadata
    /\ "page" \in DOMAIN doc.metadata

C15_MissingMetadataKeyGetsDefault ==
    (/\ gc.status # "idle"
     /\ \A i \in 1..Len(gc.documents) : gc.documents[i].kind = "Document") =>
        /\ gc.status = "returned"
        /\ Len(gc.context) = 5 * Len(gc.documents)

\* The place of a store operation in a reset-and-load: drops, then creation and
\* loading of collections, then the docs insert, then chunk inserts.
PhaseOf(operation) ==
    CASE operation.op = "drop_collection" -> 0
      [] operation.op = "insert" /\ operation.coll = "docs" -> 2
      [] operation.op = "insert" /\ operation.coll = "chunks" -> 3
      [] OTHER -> 1

\* The positions of lt.ops that hold an operation `op` on collection `coll`.
OpsOn(op, coll) ==
    {k \in 1..Len(lt.ops) : lt.ops[k].op = op /\ lt.ops[k].coll = coll}

\* C18: a RES_LOAD startup drops every collection the store held, then creates
\* and loads docs and chunks, then inserts the doc records in one insert, then
\* inserts chunk batches; no insert precedes a drop.
C18_ResLoadDropsCreatesThenInserts ==
    (lt.call = "startup" /\ lt.run_mode = "RES_LOAD") =>
        /\ \A i \in 1..Len(lt.ops), j \in 1..Len(lt.ops) :
              i < j => PhaseOf(lt.ops[i]) <= PhaseOf(lt.ops[j])
        /\ {lt.ops[k].coll : k \in {i \in 1..Len(lt.ops) :
                                       lt.ops[i].op = "drop_collection"}}
              = lt.ops[1].existing
        /\ \A coll \in {"docs", "chunks"} :
              /\ Cardinality(OpsOn("create_collection", coll)) = 1
              /\ Cardinality(OpsOn("load_collection", coll)) = 1
        /\ Cardinality(OpsOn("insert", "docs")) = 1
        /\ \A i \in 1..Len(ing.documents) : \E r \in docs : r.id = ing.documents[i].id

\* A RES_LOAD startup on a store that held both collections inserted two chunk
\* batches.
C18_Witness ==
    /\ lt.call = "startup"
    /\ lt.run_mode = "RES_LOAD"
    /\ lt.ops[1].existing = {"docs", "chunks"}
    /\ ing.pc = "done"
    /\ Cardinality(OpsOn("insert", "chunks")) = 2

\* C19: a NO_RES_NO_LOAD startup sends the store nothing but the loading of
\* collections (no drop, no insert, no creation of a collection or an index),
\* and a RES_LOAD_FILES startup drops the collections the store held and
\* inserts records.
C19_NoResNoLoadMutatesNothing ==
    lt.call = "startup" =>
        /\ lt.run_mode = "NO_RES_NO_LOAD" =>
              \A k \in 1..Len(lt.ops) : lt.ops[k].op = "load_collection"
        /\ lt.run_mode = "RES_LOAD_FILES" =>
              /\ \A coll \in lt.ops[1].existing : OpsOn("drop_collection", coll) # {}
              /\ \E k \in 1..Len(lt.ops) : lt.ops[k].op = "insert"

\* C12: every insert of the latest call was sent while the store held both the
\* docs and the chunks collection.
C12_InsertsOnlyIntoExistingCollections ==
    \A k \in 1..Len(lt.ops) :
        lt.ops[k].op = "insert" => {"docs", "chunks"} \subseteq lt.ops[k].existing

\* The ids of the chunk records the latest load has added to the chunks collection.
NewChunkIds ==
    [k \in 1..(Len(chunksColl) - Len(lt.chunks_before)) |->
        chunksColl[Len(lt.chunks_before) + k].id]

\* The ids of the chunks of a document list, in chunker order.
ChunkIdsOf(documents) ==
    [k \in 1..Len(ChunkDocuments(documents)) |-> ChunkDocuments(documents)[k].id]

\* The doc records were written in one insert before any chunk insert, every
\* document of the load has its record in docs, and nothing that was in the
\* chunks collection before the load has been taken back.
DocsInsertedFirstAndKept ==
    /\ Cardinality(OpsOn("insert", "docs")) = 1
    /\ \A k \in OpsOn("insert", "chunks") : \A d \in OpsOn("insert", "docs") : d < k
    /\ \A i \in 1..Len(ing.documents) : \E r \in docs : r.id = ing.documents[i].id
    /\ Len(lt.chunks_before) <= Len(chunksColl)
    /\ SubSeq(chunksColl, 1, Len(lt.chunks_before)) = lt.chunks_before

\* C17 as stated: when chunk batch j of an add_documents or a RES_LOAD startup
\* has failed, every doc record is persisted, the chunk records of the batches
\* before j are persisted, and no chunk record of batch j or of a later batch is.
C17_FailedBatchLeavesNoChunkOfIt ==
    (ing.pc = "raised" /\ lt.call \in {"startup", "add_documents"}) =>
        /\ DocsInsertedFirstAndKept
        /\ NewChunkIds = ChunkIdsOf(PySlice(ing.documents, 0,
                                            Last(ing.attempts).start_idx))

\* C17 amended: when chunk batch j of an add_documents or a RES_LOAD startup has
\* failed, every doc record is persisted, the chunk records of the batches
\* before j are persisted, no chunk record of a later batch is, and of batch j
\* only the leading records the failing insert call itself persisted (none when
\* the batch failed before its insert call); nothing is rolled back.
C17_FailedBatchLeavesOnlyWhatItsInsertPersisted ==
    (ing.pc = "raised" /\ lt.call \in {"startup", "add_documents"}) =>
        LET failed == Last(ing.attempts)
            before == ChunkIdsOf(PySlice(ing.documents, 0, failed.start_idx))
            batch == ChunkIdsOf(PySlice(ing.documents, failed.start_idx,
                                        failed.end_idx))
        IN  /\ DocsInsertedFirstAndKept
            /\ \E p \in 0..Len(batch) :
                  /\ NewChunkIds = before \o SubSeq(batch, 1, p)
                  /\ failed.fail # "insert" => p = 0

\* The second chunk batch of a load failed in its insert call after the first
\* batch was persisted, and the store kept a part of the second.
C17_Witness ==
    /\ ing.pc = "raised"
    /\ lt.call \in {"startup", "add_documents"}
    /\ Len(ing.attempts) = 2
    /\ Last(ing.attempts).fail = "insert"
    /\ Len(NewChunkIds) >
         Len(ChunkIdsOf(PySlice(ing.documents, 0, Last(ing.attempts).start_idx)))

\* C11: a get_context call made after delete_documents("all"), with no
\* add_documents since, returns an empty context and the sources header alone.
C11_QueryAfterDeleteAllReturnsEmpty ==
    (gc.status # "idle" /\ lt.deleted_all) =>
        /\ gc.status = "returned"
        /\ gc.context = <<>>
        /\ gc.sources = <<"Fuentes consultadas:\n">>

\* C13: a get_context call whose hybrid search met a store error, on a store
\* that holds the chunks collection, returns an empty context.
C13_StoreErrorYieldsEmptyContext ==
    (gc.status # "idle" /\ "chunks" \in colls /\ frc.unfiltered.raises) =>
        /\ gc.status = "returned"
        /\ gc.context = <<>>

\* The entities the tagger extracted, as the dictionaries a filter names them by.
ExtractedAsDicts(extracted_entities) ==
    [i \in 1..Len(extracted_entities) |->
        [type |-> extracted_entities[i][1], value |-> extracted_entities[i][2]]]

\* C21: a _find_relevant_chunks call issues one or two hybrid searches; with no
\* entity extracted it issues exactly one, without a filter; with entities
\* extracted its first search carries the JSON_CONTAINS_ANY filter over exactly
\* the extracted entities, and a search without filter comes only after it.
C21_OneOrTwoSearchesFilteredFirst ==
    frc.status # "idle" =>
        /\ Len(frc.searches) \in 1..2
        /\ frc.entities = <<>> => frc.searches = <<NoFilter>>
        /\ frc.entities # <<>> =>
              /\ frc.searches[1].op = "JSON_CONTAINS_ANY"
              /\ frc.searches[1].field = "entities"
              /\ frc.searches[1].values = ExtractedAsDicts(frc.entities)
              /\ Len(frc.searches) = 2 => frc.searches[2] = NoFilter

\* A step after which: an offset logged by a failed batch lies at or past the
\* end of that batch; a call resumed at the logged offset starts there, attempts
\* only batches that start at or past it, has no more batches than documents
\* are left, and has no batch at all when the failed batch was the last one.
ResumeFollowsFailedBatch ==
    /\ ing'.pc = "raised" =>
          /\ ing'.logged >= Last(ing'.attempts).end_idx
          /\ ing'.logged = Last(ing'.attempts).start_idx + ing'.batch_size
    /\ (ing.pc = "raised" /\ ing'.calls = ing.calls + 1) =>
          /\ ing'.documents = ing.documents
          /\ ing'.start_from = ing.logged
          /\ ing'.num_batches <= Max(0, Len(ing.documents) - ing.logged)
          /\ Last(ing.attempts).end_idx = Len(ing.documents) =>
                ing'.num_batches = 0 /\ ing'.pc = "done"
    /\ \A k \in 1..Len(ing'.attempts) :
          /\ ing'.attempts[k].start_idx >= ing'.start_from
          /\ ing'.attempts[k].end_idx <= Len(ing'.documents)

\* C22 as stated: the offset logged on a batch failure never exceeds
\* len(documents), and a call resumed with it processes only documents that
\* follow the failed batch and ends, with zero batches when the failed batch
\* was the last one.
C22_LoggedOffsetWithinDocuments ==
    [][ /\ ing'.pc = "raised" => ing'.logged <= Len(ing'.documents)
        /\ ResumeFollowsFailedBatch ]_vars

\* C22 amended: the offset logged on a batch failure is the failed batch's start
\* plus batch_size, which exceeds len(documents) by at most batch_size - 1 (after
\* a failure of a final, short batch); a call resumed with it processes only
\* documents that follow the failed batch and ends, with zero batches when the
\* failed batch was the last one.
C22_LoggedOffsetWithinABatchOfDocuments ==
    [][ /\ ing'.pc = "raised" =>
              ing'.logged <= Len(ing'.documents) + ing'.batch_size - 1
        /\ ResumeFollowsFailedBatch ]_vars

\* A call resumed at an offset past the end of the list, logged by the failure
\* of a final short batch, completed without a batch.
C22_Witness ==
    /\ ing.calls >= 2
    /\ ing.pc = "done"
    /\ ing.start_from > Len(ing.documents)
    /\ ing.num_batches = 0
    /\ ing.attempts = <<>>

====
